---- MODULE Spec2Model ----
(***************************************************************************)
(* Path finding of rltk_rs: the A-Star search of src/astar.rs and the      *)
(* Dijkstra flow map of src/dijkstra.rs, over a BaseMap that supplies the  *)
(* exits of a tile and a pathing distance between two tiles.               *)
(*                                                                         *)
(* f32 values are modelled by naturals: every cost, depth and distance of  *)
(* the model is a small whole number, which f32 represents and adds        *)
(* exactly.                                                                *)
(***************************************************************************)
EXTENDS Integers, Sequences, FiniteSets, TLC

VARIABLES
    exits,          \* BaseMap::get_available_exits: tile -> sequence of <<tile, cost>>
    hdist,          \* BaseMap::get_pathing_distance(idx, end): tile -> distance
    start,          \* AStar.start
    end,            \* AStar.end
    open_list,      \* AStar.open_list: sequence of Node
    closed_list,    \* AStar.closed_list: HashMap tile -> f
    parents,        \* AStar.parents: HashMap tile -> tile
    step_counter,   \* AStar.step_counter
    result,         \* the NavigationPath that search returns
    current,        \* found_it: the tile the walk over parents stands on
    pc,             \* position of a_star_search: "search", "found_it", "done"
    dm,             \* the DijkstraMap: [map, size_x, size_y, max_depth]
    num_threads,    \* rayon::current_num_threads()
    d_pc,           \* position of DijkstraMap::build: "idle", "sequential",
                    \* "parallel" (the workers run), "reduce"
    d_starts,       \* build: the starts of the call under way, or of the last call
    d_next,         \* build: position of `for start in starts.iter()`
    d_open,         \* build: open_list, a stack of <<tile, depth>>
    d_closed,       \* build: closed_list, tile -> bool
    layers,         \* build_parallel: sequence of ParallelDm, each with the
                    \* position and the closed_list of the worker that owns it
    snapshot,       \* build_parallel: the exits vector
    d_reduced,      \* build_parallel: layers recombined so far
    before,         \* dm.map when the last call of build began
    budget,         \* starts the calls of build to come may take, all together
    query           \* the last call of a function that changes nothing:
                    \* [op, args, result]

astar_vars == <<start, end, open_list, closed_list, parents, step_counter,
                result, current, pc>>
map_vars == <<exits, hdist>>
dijkstra_vars == <<dm, num_threads, d_pc, d_starts, d_next, d_open, d_closed,
                   layers, snapshot, d_reduced, before, budget>>
vars == <<map_vars, astar_vars, dijkstra_vars, query>>

(***************************************************************************)
(* Bounds of the maps and searches explored.                               *)
(***************************************************************************)
NumCells == 3       \* tiles of a map handed to the A-Star search
MaxEdges == 3       \* exits of such a map, all tiles together
MaxCost == 3        \* largest cost of one exit
MaxH == 1           \* largest pathing distance the map reports
MaxZeroEdges == 1   \* exits of cost zero of a map that has them

Cells == 0 .. (NumCells - 1)

\* std::f32::MAX, the value of a tile no build has reached.  It stands above
\* every depth and every cost sum of the model.
MAX == 1000000

\* The cost of a path that does not exist.
Unreachable == MAX

Min2(a, b) == IF a < b THEN a ELSE b

SetMin(S) == CHOOSE x \in S : \A y \in S : x <= y

Range(s) == { s[i] : i \in 1 .. Len(s) }

(***************************************************************************)
(* The maps handed to a search.  An edge is <<from, to, cost>>, an exit of *)
(* cost 1 or of cost MaxCost.  A map is a set of up to MaxEdges edges, no  *)
(* two of them between the same tiles and one of them at most of cost      *)
(* MaxCost; the exits of a tile are the edges leaving it, ordered by the   *)
(* tile entered.  Maps with exits of cost zero have up to MaxZeroEdges of  *)
(* them and one exit per tile: a search on them can last all of            *)
(* MAX_ASTAR_STEPS expansions, and stays small only when each expansion    *)
(* adds one node at most.                                                  *)
(***************************************************************************)
RECURSIVE SeqsUpTo(_, _)
SeqsUpTo(S, n) ==
    IF n = 0 THEN { <<>> }
    ELSE LET shorter == SeqsUpTo(S, n - 1)
         IN shorter \cup { Append(s, e) : s \in shorter, e \in S }

RECURSIVE SetsUpTo(_, _)
SetsUpTo(S, n) ==
    IF n = 0 THEN { {} }
    ELSE LET smaller == SetsUpTo(S, n - 1)
         IN smaller \cup { w \cup {e} : w \in smaller, e \in S }

\* The exits in X, a set of <<tile, cost>>, ordered by tile and cost.
RECURSIVE Ordered(_)
Ordered(X) ==
    IF X = {} THEN <<>>
    ELSE LET x == CHOOSE y \in X :
                     \A z \in X : y[1] < z[1] \/ (y[1] = z[1] /\ y[2] <= z[2])
         IN <<x>> \o Ordered(X \ {x})

ExitsOf(es) ==
    [c \in Cells |-> Ordered({ <<e[2], e[3]>> : e \in { x \in es : x[1] = c } })]

PositiveEdges == { <<a, b, c>> : a \in Cells, b \in Cells, c \in {1, MaxCost} }
ZeroEdges == { <<a, b, 0>> : a \in Cells, b \in Cells }

\* One exit at most from a tile into another, one exit at most of cost MaxCost.
Simple(es) ==
    /\ \A x \in es : \A y \in es : (x[1] = y[1] /\ x[2] = y[2]) => x = y
    /\ \A x \in es : \A y \in es : (x[3] # 1 /\ y[3] # 1) => x = y

PositiveMaps ==
    { ExitsOf(es) : es \in { w \in SetsUpTo(PositiveEdges, MaxEdges) : Simple(w) } }
ZeroMaps == { m \in { ExitsOf(es) : es \in SetsUpTo(ZeroEdges, MaxZeroEdges) } :
                \A c \in Cells : Len(m[c]) <= 1 }
Maps == PositiveMaps \cup ZeroMaps

\* The pathing distances to tile e that a map may report: the same distance,
\* 0 or MaxH, from every other tile.
Heuristics(e) == { [c \in Cells |-> IF c = e THEN 0 ELSE k] : k \in {0, MaxH} }

(***************************************************************************)
(* src/astar.rs                                                            *)
(***************************************************************************)
MAX_ASTAR_STEPS == 2048

NavigationPath_new == [destination |-> 0, success |-> FALSE, steps |-> <<>>]

Node(idx, f, g, h) == [idx |-> idx, f |-> f, g |-> g, h |-> h]

\* HashMap::insert
Insert(m, k, v) == [x \in (DOMAIN m) \cup {k} |-> IF x = k THEN v ELSE m[x]]

EmptyMap == [x \in {} |-> 0]

distance_to_end(idx) == hdist[idx]

\* add_successor recording the start, not q, as the parent of the end.
add_successor_parent_start(s, q, idx, cost) ==
    IF idx = end
    THEN [s EXCEPT !.parents = Insert(@, idx, start), !.found = TRUE]
    ELSE LET distance == distance_to_end(idx)
             n == Node(idx, distance + cost, cost, distance)
             in_open == \E i \in 1 .. Len(s.open_list) :
                            s.open_list[i].f < n.f /\ s.open_list[i].idx = idx
             in_closed == /\ idx \in DOMAIN s.closed_list
                          /\ s.closed_list[idx] < n.f
         IN IF ~in_open /\ ~in_closed
            THEN [s EXCEPT !.open_list = Append(@, n),
                           !.parents = Insert(@, idx, q.idx)]
            ELSE s

\* s is the searcher: [open_list, closed_list, parents, found]; found is
\* the value add_successor returns.
add_successor(s, q, idx, cost) ==
    IF idx = end
    THEN [s EXCEPT !.parents = Insert(@, idx, q.idx), !.found = TRUE]
    ELSE LET distance == distance_to_end(idx)
             n == Node(idx, distance + cost, cost, distance)
             in_open == \E i \in 1 .. Len(s.open_list) :
                            s.open_list[i].f < n.f /\ s.open_list[i].idx = idx
             in_closed == /\ idx \in DOMAIN s.closed_list
                          /\ s.closed_list[idx] < n.f
         IN IF ~in_open /\ ~in_closed
            THEN [s EXCEPT !.open_list = Append(@, n),
                           !.parents = Insert(@, idx, q.idx)]
            ELSE s

\* for s in successors.iter(): stops at the first successor that is the end.
RECURSIVE Successors(_, _, _, _)
Successors(s, q, successors, i) ==
    IF i > Len(successors) \/ s.found THEN s
    ELSE Successors(add_successor(s, q, successors[i][1], successors[i][2] + q.f),
                    q, successors, i + 1)

\* open_list.sort_by(f): a stable sort, equal f keep their order.
RECURSIVE SortByF(_)
SortByF(s) ==
    IF Len(s) <= 1 THEN s
    ELSE LET front == SortByF(SubSeq(s, 1, Len(s) - 1))
             x == s[Len(s)]
             k == Cardinality({ i \in 1 .. Len(front) : front[i].f <= x.f })
         IN SubSeq(front, 1, k) \o <<x>> \o SubSeq(front, k + 1, Len(front))

\* The loop condition letting the counter reach the limit before it stops.
LoopConditionOffByOne == Len(open_list) # 0 /\ step_counter <= MAX_ASTAR_STEPS

\* The condition of the while loop of search.
LoopCondition == Len(open_list) # 0 /\ step_counter < MAX_ASTAR_STEPS

(***************************************************************************)
(* src/geometry/mod.rs.  A Point is [x, y]; the coordinates of the model   *)
(* are small, so that the differences and their squares are whole numbers  *)
(* that i32 and f32 hold exactly.                                          *)
(***************************************************************************)
max(a, b) == IF a >= b THEN a ELSE b
min(a, b) == IF a <= b THEN a ELSE b

distance2d_pythagoras_squared(a, b) ==
    LET dx == max(a.x, b.x) - min(a.x, b.x)
        dy == max(a.y, b.y) - min(a.y, b.y)
    IN (dx * dx) + (dy * dy)

distance2d_manhattan(a, b) ==
    LET dx == max(a.x, b.x) - min(a.x, b.x)
        dy == max(a.y, b.y) - min(a.y, b.y)
    IN dx + dy

\* distance2d_chebyshev adding the smaller difference twice.
distance2d_chebyshev_diagonal(a, b) ==
    LET dx == max(a.x, b.x) - min(a.x, b.x)
        dy == max(a.y, b.y) - min(a.y, b.y)
    IN IF dx > dy THEN (dx - dy) + 2 * dy ELSE (dy - dx) + 2 * dx

distance2d_chebyshev(a, b) ==
    LET dx == max(a.x, b.x) - min(a.x, b.x)
        dy == max(a.y, b.y) - min(a.y, b.y)
    IN IF dx > dy THEN (dx - dy) + 1 * dy ELSE (dy - dx) + 1 * dx

\* The arms of distance2d that work without a square root.
distance2d(algorithm, a, b) ==
    CASE algorithm = "PythagorasSquared" -> distance2d_pythagoras_squared(a, b)
      [] algorithm = "Manhattan" -> distance2d_manhattan(a, b)
      [] algorithm = "Chebyshev" -> distance2d_chebyshev(a, b)

(***************************************************************************)
(* src/dijkstra.rs                                                         *)
(***************************************************************************)
SizeX == 3          \* size_x of the rectangular flow maps
SizeY == 2          \* size_y of the rectangular flow maps
MaxDepth == 4       \* largest max_depth of a flow map
MaxStarts == 3      \* starts handed to build on a rectangular flow map, all calls together
MaxThreads == 2     \* largest rayon::current_num_threads()
CorridorLen == 3    \* size_x of the flow maps of one row
CorridorStarts == 2 \* starts handed to build on a flow map of one row, all calls together

TilesOf(size_x, size_y) == 0 .. (size_x * size_y - 1)

\* The rectangular maps: a tile has an exit to each of its west, east, north
\* and south neighbours, at the cost of the tile entered.
Neighbours(size_x, size_y, t) ==
    (IF t % size_x > 0 THEN <<t - 1>> ELSE <<>>)
    \o (IF t % size_x < size_x - 1 THEN <<t + 1>> ELSE <<>>)
    \o (IF t \div size_x > 0 THEN <<t - size_x>> ELSE <<>>)
    \o (IF t \div size_x < size_y - 1 THEN <<t + size_x>> ELSE <<>>)

RectExits(size_x, size_y, cost) ==
    [t \in TilesOf(size_x, size_y) |->
        LET ns == Neighbours(size_x, size_y, t)
        IN [i \in 1 .. Len(ns) |-> <<ns[i], cost[ns[i]]>>]]

\* Every step costs the same, 1 .. MaxCost, or a step costs what the terrain
\* of the tile entered costs: 0, 1, .. MaxCost.
StepCosts(tiles) == { [t \in tiles |-> c] : c \in 1 .. MaxCost }
                    \cup { [t \in tiles |-> t % (MaxCost + 1)] }

RectMaps(size_x, size_y) ==
    { RectExits(size_x, size_y, cost) : cost \in StepCosts(TilesOf(size_x, size_y)) }

\* The maps of one row where entering a tile costs 0 or 1, tile by tile.
RowMaps(size_x) ==
    { RectExits(size_x, 1, cost) : cost \in [TilesOf(size_x, 1) -> {0, 1}] }

\* A field of MAX alone.
FreshField(map) == [t \in DOMAIN map |-> MAX]

new_empty(size_x, size_y, max_depth) ==
    [map |-> [t \in 0 .. (size_x * size_y - 1) |-> MAX],
     size_x |-> size_x, size_y |-> size_y, max_depth |-> max_depth]

\* add_if_open without the test of new_depth against max_depth.
add_if_open_any_depth(max_depth, idx, t, new_depth) ==
    IF t.closed_list[idx] THEN t
    ELSE [open_list |-> Append(t.open_list, <<idx, new_depth>>),
          closed_list |-> [t.closed_list EXCEPT ![idx] = TRUE]]

\* t is the pair of lists handed to add_if_open: [open_list, closed_list].
add_if_open(max_depth, idx, t, new_depth) ==
    IF new_depth > max_depth THEN t
    ELSE IF t.closed_list[idx] THEN t
    ELSE [open_list |-> Append(t.open_list, <<idx, new_depth>>),
          closed_list |-> [t.closed_list EXCEPT ![idx] = TRUE]]

\* for exit in exits.iter() { add_if_open(..) }
RECURSIVE AddExits(_, _, _, _, _)
AddExits(max_depth, t, tile_exits, depth, i) ==
    IF i > Len(tile_exits) THEN t
    ELSE AddExits(max_depth,
                  add_if_open(max_depth, tile_exits[i][1], t, depth + tile_exits[i][2]),
                  tile_exits, depth, i + 1)

\* PopTile writing the depth popped whenever it differs from the map's.
PopTileAnyDepth(w, max_depth, all_exits) ==
    LET last_idx == Len(w.open_list)
        current_tile == w.open_list[last_idx]
        tile_idx == current_tile[1]
        depth == current_tile[2]
        rest == SubSeq(w.open_list, 1, last_idx - 1)
    IN IF w.map[tile_idx] # depth
       THEN LET t == AddExits(max_depth,
                              [open_list |-> rest, closed_list |-> w.closed_list],
                              all_exits[tile_idx], depth, 1)
            IN [map |-> [w.map EXCEPT ![tile_idx] = depth],
                open_list |-> t.open_list, closed_list |-> t.closed_list]
       ELSE [w EXCEPT !.open_list = rest]

\* One pass of `while !open_list.is_empty()`, in build and in the workers of
\* build_parallel alike.  w is [map, open_list, closed_list]; all_exits is
\* the map's get_available_exits, or the exits vector of build_parallel.
PopTile(w, max_depth, all_exits) ==
    LET last_idx == Len(w.open_list)
        current_tile == w.open_list[last_idx]
        tile_idx == current_tile[1]
        depth == current_tile[2]
        rest == SubSeq(w.open_list, 1, last_idx - 1)
    IN IF w.map[tile_idx] > depth
       THEN LET t == AddExits(max_depth,
                              [open_list |-> rest, closed_list |-> w.closed_list],
                              all_exits[tile_idx], depth, 1)
            IN [map |-> [w.map EXCEPT ![tile_idx] = depth],
                open_list |-> t.open_list, closed_list |-> t.closed_list]
       ELSE [w EXCEPT !.open_list = rest]

\* The element of a set of one.
Only(S) == CHOOSE x \in S : TRUE

\* The whole while loop.  Each pass is worked out once, as a value x, before
\* the loop goes on from it.
RECURSIVE Traverse(_, _, _)
Traverse(w, max_depth, all_exits) ==
    IF w.open_list = <<>> THEN w
    ELSE Only({ Traverse(x, max_depth, all_exits) :
                    x \in { PopTile(w, max_depth, all_exits) } })

NoneClosed(map) == [t \in DOMAIN map |-> FALSE]

\* The sequential body of build, from start i on: for every start the lists
\* are reset, the start is pushed and the while loop runs.
RECURSIVE build_sequential(_, _, _, _, _)
build_sequential(map, starts, i, max_depth, all_exits) ==
    IF i > Len(starts) THEN map
    ELSE LET w == Traverse([map |-> map,
                            open_list |-> << <<starts[i], 0>> >>,
                            closed_list |-> NoneClosed(map)],
                           max_depth, all_exits)
         IN build_sequential(w.map, starts, i + 1, max_depth, all_exits)

\* starts.chunks(n)
RECURSIVE Chunks(_, _)
Chunks(starts, n) ==
    IF starts = <<>> THEN <<>>
    ELSE IF Len(starts) <= n THEN <<starts>>
    ELSE <<SubSeq(starts, 1, n)>> \o Chunks(SubSeq(starts, n + 1, Len(starts)), n)

\* The layers build_parallel makes, one for each chunk.  next and closed_list
\* belong to the worker that runs the layer: the position of its
\* `for start in l.starts.iter()` and its closed_list, made once for the layer.
NewLayers(map, starts, max_depth, threads) ==
    LET chunks == Chunks(starts, threads)
    IN [k \in 1 .. Len(chunks) |->
            [map |-> [t \in DOMAIN map |-> MAX],
             max_depth |-> max_depth,
             starts |-> chunks[k],
             next |-> 1,
             closed_list |-> NoneClosed(map)]]

\* A worker takes the next start of its layer: the start is pushed and the
\* while loop runs.  The closed_list is the one the last start left.
WorkLayer(l, all_exits) ==
    Only({ [l EXCEPT !.map = w.map, !.closed_list = w.closed_list, !.next = @ + 1] :
           w \in { Traverse([map |-> l.map,
                             open_list |-> << <<l.starts[l.next], 0>> >>,
                             closed_list |-> l.closed_list],
                            l.max_depth, all_exits) } })

LayerDone(l) == l.next > Len(l.starts)

RECURSIVE RunLayer(_, _)
RunLayer(l, all_exits) ==
    IF LayerDone(l) THEN l ELSE RunLayer(WorkLayer(l, all_exits), all_exits)

\* Recombination that keeps the value of the layer, whatever the map holds.
RecombineOverwrite(map, l) == [t \in DOMAIN map |-> l.map[t]]

\* dm.map[i] = f32::min(dm.map[i], l.map[i]) for every i.
Recombine(map, l) == [t \in DOMAIN map |-> Min2(map[t], l.map[t])]

RECURSIVE RecombineAll(_, _, _)
RecombineAll(map, ls, k) ==
    IF k > Len(ls) THEN map
    ELSE RecombineAll(Recombine(map, ls[k]), ls, k + 1)

build_parallel(map, starts, max_depth, threads, all_exits) ==
    LET ls == NewLayers(map, starts, max_depth, threads)
        run == [k \in 1 .. Len(ls) |-> RunLayer(ls[k], all_exits)]
    IN RecombineAll(map, run, 1)

\* Option<i32>
None == <<>>
Some(i) == <<i>>

\* exits.par_sort_by(|a,b| a.1.partial_cmp(&b.1)): a stable sort of the
\* <<tile, value>> pairs by value, lowest first.
RECURSIVE SortByValue(_)
SortByValue(s) ==
    IF Len(s) <= 1 THEN s
    ELSE LET front == SortByValue(SubSeq(s, 1, Len(s) - 1))
             x == s[Len(s)]
             k == Cardinality({ i \in 1 .. Len(front) : front[i][2] <= x[2] })
         IN SubSeq(front, 1, k) \o <<x>> \o SubSeq(front, k + 1, Len(front))

\* The exits of position, each with the value the flow map holds for it.
ValuedExits(map, position, all_exits) ==
    [i \in 1 .. Len(all_exits[position]) |->
        <<all_exits[position][i][1], map[all_exits[position][i][1]]>>]

\* find_lowest_exit returning the first exit of the map, unsorted.
find_first_exit(map, position, all_exits) ==
    LET valued == ValuedExits(map, position, all_exits)
    IN IF valued = <<>> THEN None ELSE Some(valued[1][1])

find_lowest_exit(map, position, all_exits) ==
    LET valued == ValuedExits(map, position, all_exits)
    IN IF valued = <<>> THEN None ELSE Some(SortByValue(valued)[1][1])

\* The body of find_highest_exit is the body of find_lowest_exit.
find_highest_exit(map, position, all_exits) ==
    LET valued == ValuedExits(map, position, all_exits)
    IN IF valued = <<>> THEN None ELSE Some(SortByValue(valued)[1][1])

\* The condition on which build branches to build_parallel.
TakesParallel(starts, threads) == Len(starts) > threads

\* The steps vector is kept up to this length, one more than the map has
\* tiles.  A walk over the parents that ends passes each tile once at most,
\* so its steps stay shorter.
MaxPathLen == Cardinality(DOMAIN exits) + 1

\* No call of a function that changes nothing was made.
NoQuery == query = [op |-> "none", args |-> <<>>, result |-> <<>>]

\* No flow map takes part in a search.
NoFlowMap ==
    /\ NoQuery
    /\ dm = new_empty(0, 0, 0)
    /\ num_threads = 1
    /\ d_pc = "idle"
    /\ d_starts = <<>>
    /\ d_next = 1
    /\ d_open = <<>>
    /\ d_closed = <<>>
    /\ layers = <<>>
    /\ snapshot = <<>>
    /\ d_reduced = 0
    /\ before = <<>>
    /\ budget = 0

AStarInit ==
    /\ NoFlowMap
    /\ exits \in Maps
    /\ start \in Cells
    /\ end \in Cells
    /\ hdist \in Heuristics(end)
    /\ open_list = << Node(start, 0, 0, 0) >>
    /\ closed_list = EmptyMap
    /\ parents = EmptyMap
    /\ step_counter = 0
    /\ result = NavigationPath_new
    /\ current = end
    /\ pc = "search"

\* One pass of the while loop of search: pop q, generate its successors and,
\* unless one of them is the end, close q and sort the open list.
SearchExpand ==
    /\ pc = "search"
    /\ LoopCondition
    /\ LET q == open_list[1]
           s0 == [open_list |-> Tail(open_list), closed_list |-> closed_list,
                  parents |-> parents, found |-> FALSE]
           s1 == Successors(s0, q, exits[q.idx], 1)
       IN /\ step_counter' = step_counter + 1
          /\ parents' = s1.parents
          /\ IF s1.found
             THEN \* found_it, up to its while loop
                  /\ open_list' = s1.open_list
                  /\ closed_list' = closed_list
                  /\ result' = [destination |-> end, success |-> TRUE,
                                steps |-> <<end>>]
                  /\ current' = end
                  /\ pc' = "found_it"
             ELSE /\ closed_list' = Insert(closed_list, q.idx, q.f)
                  /\ open_list' = SortByF(s1.open_list)
                  /\ UNCHANGED <<result, current, pc>>
    /\ UNCHANGED <<dijkstra_vars, map_vars, query, start, end>>

\* The while loop of search ends: the empty NavigationPath is returned.
SearchGiveUp ==
    /\ pc = "search"
    /\ ~LoopCondition
    /\ pc' = "done"
    /\ UNCHANGED <<dijkstra_vars, map_vars, query, start, end, open_list, closed_list, parents,
                   step_counter, result, current>>

\* One pass of the while loop of found_it.
FoundItStep ==
    /\ pc = "found_it"
    /\ current # start
    /\ IF current \in DOMAIN parents
       THEN LET parent == parents[current]
            IN /\ result' = [result EXCEPT !.steps =
                                IF Len(@) < MaxPathLen THEN <<parent>> \o @ ELSE @]
               /\ current' = parent
               /\ pc' = pc
       ELSE \* parents[&current] panics
            /\ pc' = "panic"
            /\ UNCHANGED <<result, current>>
    /\ UNCHANGED <<dijkstra_vars, map_vars, query, start, end, open_list, closed_list, parents,
                   step_counter>>

\* found_it returns, and search with it.
FoundItReturn ==
    /\ pc = "found_it"
    /\ current = start
    /\ pc' = "done"
    /\ UNCHANGED <<dijkstra_vars, map_vars, query, start, end, open_list, closed_list, parents,
                   step_counter, result, current>>

AStarNext == SearchExpand \/ SearchGiveUp \/ FoundItStep \/ FoundItReturn

SpecAStar == AStarInit /\ [][AStarNext]_vars

(***************************************************************************)
(* The search on an open map of GridX by GridY tiles: every step costs 1,  *)
(* the pathing distance is the Manhattan distance of the tiles, the start  *)
(* is the tile of the corner.                                              *)
(***************************************************************************)
GridX == 24         \* size_x of the open map searched
GridY == 3          \* size_y of the open map searched

GridTiles == TilesOf(GridX, GridY)

\* The point of a tile: idx = y * GridX + x.
PointOf(idx) == [x |-> idx % GridX, y |-> idx \div GridX]

GridDistance(a, b) == distance2d("Manhattan", PointOf(a), PointOf(b))

GridInit ==
    /\ NoFlowMap
    /\ exits = RectExits(GridX, GridY, [t \in GridTiles |-> 1])
    /\ start = 0
    /\ end \in GridTiles \ {0}
    /\ hdist = [t \in GridTiles |-> GridDistance(t, end)]
    /\ open_list = << Node(start, 0, 0, 0) >>
    /\ closed_list = EmptyMap
    /\ parents = EmptyMap
    /\ step_counter = 0
    /\ result = NavigationPath_new
    /\ current = end
    /\ pc = "search"

SpecAStarGrid == GridInit /\ [][AStarNext]_vars

\* The maps whose exits all cost 1, with the pathing distance 0 everywhere:
\* the searches over which termination is checked.
UnitMaps ==
    { ExitsOf(es) : es \in SetsUpTo({ <<a, b, 1>> : a \in Cells, b \in Cells }, MaxEdges) }

AStarInitUnit == AStarInit /\ exits \in UnitMaps /\ hdist = [c \in Cells |-> 0]

\* search runs on one thread: a step that can be taken is taken.
SpecAStarFair == AStarInitUnit /\ [][AStarNext]_vars /\ WF_vars(AStarNext)

(***************************************************************************)
(* The flow map: construction, then calls of build and clear.              *)
(***************************************************************************)
\* The tiles of the flow map.
Tiles == DOMAIN dm.map

\* No search takes part in the building of a flow map.
NoSearch ==
    /\ start = 0
    /\ end = 0
    /\ open_list = <<>>
    /\ closed_list = EmptyMap
    /\ parents = EmptyMap
    /\ step_counter = 0
    /\ result = NavigationPath_new
    /\ current = 0
    /\ pc = "done"

\* The locals of build and build_parallel, outside a call.
NoLocals ==
    /\ d_next = 1
    /\ d_open = <<>>
    /\ d_closed = <<>>
    /\ layers = <<>>
    /\ snapshot = <<>>
    /\ d_reduced = 0

\* build returns: its locals are dropped.
DropLocals ==
    /\ d_next' = 1
    /\ d_open' = <<>>
    /\ d_closed' = <<>>
    /\ layers' = <<>>
    /\ snapshot' = <<>>
    /\ d_reduced' = 0

\* DijkstraMap::new_empty for one of maps, each of size_x by size_y tiles.
\* DijkstraMap::new is new_empty and then build: the first call of build.
FlowInit(size_x, size_y, maps, starts) ==
    /\ NoSearch
    /\ NoQuery
    /\ exits \in maps
    /\ hdist = [t \in TilesOf(size_x, size_y) |-> 0]
    /\ num_threads \in 1 .. MaxThreads
    /\ \E max_depth \in 0 .. MaxDepth : dm = new_empty(size_x, size_y, max_depth)
    /\ d_pc = "idle"
    /\ d_starts = <<>>
    /\ NoLocals
    /\ before = [t \in TilesOf(size_x, size_y) |-> MAX]
    /\ budget = starts

DijkstraInit == FlowInit(SizeX, SizeY, RectMaps(SizeX, SizeY), MaxStarts)

\* The flow maps of one row.
CorridorInit ==
    FlowInit(CorridorLen, 1, RectMaps(CorridorLen, 1) \cup RowMaps(CorridorLen),
             CorridorStarts)

\* build is called: it branches to build_parallel, which makes the layers and
\* the exits vector, or makes the lists of the sequential loop.
BuildCall(starts) ==
    /\ d_pc = "idle"
    /\ Len(starts) <= budget
    /\ budget' = budget - Len(starts)
    /\ before' = dm.map
    /\ d_starts' = starts
    /\ IF TakesParallel(starts, num_threads)
       THEN /\ layers' = NewLayers(dm.map, starts, dm.max_depth, num_threads)
            /\ snapshot' = [t \in DOMAIN dm.map |-> exits[t]]
            /\ d_reduced' = 0
            /\ d_pc' = "parallel"
            /\ UNCHANGED <<d_next, d_open, d_closed>>
       ELSE /\ d_next' = 1
            /\ d_open' = <<>>
            /\ d_closed' = NoneClosed(dm.map)
            /\ d_pc' = "sequential"
            /\ UNCHANGED <<layers, snapshot, d_reduced>>
    /\ UNCHANGED <<dm, num_threads, map_vars, astar_vars, query>>

\* The loop over the starts never leaving its first start.
SeqStartKeepsPosition ==
    /\ d_pc = "sequential"
    /\ d_open = <<>>
    /\ d_next <= Len(d_starts)
    /\ d_open' = << <<d_starts[d_next], 0>> >>
    /\ d_closed' = NoneClosed(dm.map)
    /\ UNCHANGED <<dm, num_threads, d_pc, d_starts, d_next, layers, snapshot,
                   d_reduced, before, budget, map_vars, astar_vars, query>>

\* build: the next start; the lists are reset and the start is pushed.
SeqStart ==
    /\ d_pc = "sequential"
    /\ d_open = <<>>
    /\ d_next <= Len(d_starts)
    /\ d_open' = << <<d_starts[d_next], 0>> >>
    /\ d_closed' = NoneClosed(dm.map)
    /\ d_next' = d_next + 1
    /\ UNCHANGED <<dm, num_threads, d_pc, d_starts, layers, snapshot, d_reduced,
                   before, budget, map_vars, astar_vars, query>>

\* build: one pass of the while loop.
SeqPop ==
    /\ d_pc = "sequential"
    /\ d_open # <<>>
    /\ LET w == PopTile([map |-> dm.map, open_list |-> d_open,
                         closed_list |-> d_closed], dm.max_depth, exits)
       IN /\ dm' = [dm EXCEPT !.map = w.map]
          /\ d_open' = w.open_list
          /\ d_closed' = w.closed_list
    /\ UNCHANGED <<num_threads, d_pc, d_starts, d_next, layers, snapshot,
                   d_reduced, before, budget, map_vars, astar_vars, query>>

\* build: the starts are used up.
SeqReturn ==
    /\ d_pc = "sequential"
    /\ d_open = <<>>
    /\ d_next > Len(d_starts)
    /\ d_pc' = "idle"
    /\ DropLocals
    /\ UNCHANGED <<dm, num_threads, d_starts, before, budget, map_vars, astar_vars, query>>

\* build_parallel: the worker of layer k takes the next start of the layer.
\* A worker reads the exits vector and writes its own layer only, so what it
\* does for one start is one step.
Worker(k) ==
    /\ d_pc = "parallel"
    /\ ~LayerDone(layers[k])
    /\ layers' = [layers EXCEPT ![k] = WorkLayer(@, snapshot)]
    /\ UNCHANGED <<dm, num_threads, d_pc, d_starts, d_next, d_open, d_closed,
                   snapshot, d_reduced, before, budget, map_vars, astar_vars, query>>

\* for_each returning as soon as one worker is done.
JoinEarly ==
    /\ d_pc = "parallel"
    /\ \E k \in 1 .. Len(layers) : LayerDone(layers[k])
    /\ d_pc' = "reduce"
    /\ UNCHANGED <<dm, num_threads, d_starts, d_next, d_open, d_closed, layers,
                   snapshot, d_reduced, before, budget, map_vars, astar_vars, query>>

\* build_parallel: for_each returns once every worker is done.
Join ==
    /\ d_pc = "parallel"
    /\ \A k \in 1 .. Len(layers) : LayerDone(layers[k])
    /\ d_pc' = "reduce"
    /\ UNCHANGED <<dm, num_threads, d_starts, d_next, d_open, d_closed, layers,
                   snapshot, d_reduced, before, budget, map_vars, astar_vars, query>>

\* build_parallel: the next layer is recombined into dm.map.
Reduce ==
    /\ d_pc = "reduce"
    /\ d_reduced < Len(layers)
    /\ dm' = [dm EXCEPT !.map = Recombine(@, layers[d_reduced + 1])]
    /\ d_reduced' = d_reduced + 1
    /\ UNCHANGED <<num_threads, d_pc, d_starts, d_next, d_open, d_closed, layers,
                   snapshot, before, budget, map_vars, astar_vars, query>>

\* build_parallel: every layer is recombined.
ParReturn ==
    /\ d_pc = "reduce"
    /\ d_reduced = Len(layers)
    /\ d_pc' = "idle"
    /\ DropLocals
    /\ UNCHANGED <<dm, num_threads, d_starts, before, budget, map_vars, astar_vars, query>>

\* DijkstraMap::clear
Clear ==
    /\ d_pc = "idle"
    /\ dm' = [dm EXCEPT !.map = FreshField(@)]
    /\ before' = FreshField(dm.map)
    /\ d_starts' = <<>>
    /\ UNCHANGED <<num_threads, d_pc, d_next, d_open, d_closed, layers, snapshot,
                   d_reduced, budget, map_vars, astar_vars, query>>

DijkstraNext ==
    \/ \E starts \in SeqsUpTo(Tiles, budget) : BuildCall(starts)
    \/ SeqStart
    \/ SeqPop
    \/ SeqReturn
    \/ \E k \in 1 .. Len(layers) : Worker(k)
    \/ Join
    \/ Reduce
    \/ ParReturn
    \/ Clear

SpecDijkstra == DijkstraInit /\ [][DijkstraNext]_vars

SpecCorridor == CorridorInit /\ [][DijkstraNext]_vars

\* The steps of a call of build that is under way.
BuildStep ==
    \/ SeqStart
    \/ SeqPop
    \/ SeqReturn
    \/ \E k \in 1 .. Len(layers) : Worker(k)
    \/ Join
    \/ Reduce
    \/ ParReturn

\* The thread that called build runs on, and rayon runs its workers: a call
\* under way takes its next step.  Nothing obliges the program to call build
\* or clear.
\* The maps of one row where entering a tile costs 0 or 1.  No path on them
\* costs CorridorLen or more, so a larger max_depth cuts nothing more.
RowInit ==
    /\ CorridorInit
    /\ exits \in RowMaps(CorridorLen)
    /\ dm.max_depth < CorridorLen

SpecRowFair == RowInit /\ [][DijkstraNext]_vars /\ WF_vars(BuildStep)

(***************************************************************************)
(* distance2d, called on points whose coordinates are -MaxCoord..MaxCoord. *)
(***************************************************************************)
MaxCoord == 2       \* largest coordinate, either sign, of a point measured

Points == [x : -MaxCoord .. MaxCoord, y : -MaxCoord .. MaxCoord]

\* The algorithms of DistanceAlg computed without a square root.
DistanceAlgs == {"PythagorasSquared", "Manhattan", "Chebyshev"}

\* The arguments of the call to come: an algorithm and two points.
DistanceInit ==
    /\ NoSearch
    /\ dm = new_empty(0, 0, 0)
    /\ num_threads = 1
    /\ d_pc = "idle"
    /\ d_starts = <<>>
    /\ NoLocals
    /\ before = <<>>
    /\ budget = 0
    /\ exits = <<>>
    /\ hdist = <<>>
    /\ \E algorithm \in DistanceAlgs : \E a \in Points : \E b \in Points :
          query = [op |-> "none", args |-> <<algorithm, a, b>>, result |-> <<>>]

Distance2d ==
    /\ query.op = "none"
    /\ query' = [query EXCEPT !.op = "distance2d",
                              !.result = distance2d(query.args[1], query.args[2],
                                                    query.args[3])]
    /\ UNCHANGED <<dijkstra_vars, map_vars, astar_vars>>

DistanceNext == Distance2d

SpecDistance == DistanceInit /\ [][DistanceNext]_vars

(***************************************************************************)
(* build on a map whose get_available_exits does not stop at the border of *)
(* the row, and with starts that may lie outside the row.  map[i] and      *)
(* closed_list[i] on a Vec panic when i as usize is not below its length.  *)
(* The starts are no more than the threads, so build takes its own loop.   *)
(***************************************************************************)
\* The indices next to the row on either side: -1 as usize is 2^64 - 1.
OutOfRange(size_x) == {-1, size_x}

\* The exits of a row where every tile has a tile to its left and right.
UncheckedRowExits(size_x, cost) ==
    [t \in TilesOf(size_x, 1) |-> << <<t - 1, cost>>, <<t + 1, cost>> >>]

UncheckedRowMaps(size_x) ==
    { UncheckedRowExits(size_x, cost) : cost \in 1 .. MaxCost }

BoundsInit ==
    /\ FlowInit(CorridorLen, 1,
                RectMaps(CorridorLen, 1) \cup UncheckedRowMaps(CorridorLen),
                CorridorStarts)
    /\ num_threads = MaxThreads
    /\ budget <= num_threads

\* The exits of tile_exits that add_if_open looks up in closed_list: those
\* it does not return on for their depth.
LookedUp(max_depth, tile_exits, depth) ==
    { tile_exits[i][1] : i \in { j \in 1 .. Len(tile_exits) :
                                    ~(depth + tile_exits[j][2] > max_depth) } }

\* The pass of the while loop to come indexes dm.map or closed_list outside
\* their length.
SeqPanics ==
    /\ d_open # <<>>
    /\ LET current_tile == d_open[Len(d_open)]
           tile_idx == current_tile[1]
           depth == current_tile[2]
       IN IF tile_idx \notin Tiles THEN TRUE
          ELSE /\ dm.map[tile_idx] > depth
               /\ LookedUp(dm.max_depth, exits[tile_idx], depth) \ Tiles # {}

\* build: a pass of the while loop that panics.  The depth of the tile is
\* written before its exits are looked at.
SeqPanic ==
    /\ d_pc = "sequential"
    /\ SeqPanics
    /\ LET tile_idx == d_open[Len(d_open)][1]
           depth == d_open[Len(d_open)][2]
       IN dm' = IF tile_idx \in Tiles
                THEN [dm EXCEPT !.map = [@ EXCEPT ![tile_idx] = depth]]
                ELSE dm
    /\ d_pc' = "panicked"
    /\ DropLocals
    /\ UNCHANGED <<num_threads, d_starts, before, budget, map_vars, astar_vars, query>>

BoundsNext ==
    \/ \E starts \in SeqsUpTo(Tiles \cup OutOfRange(dm.size_x), budget) :
           BuildCall(starts)
    \/ SeqStart
    \/ ~SeqPanics /\ SeqPop
    \/ SeqPanic
    \/ SeqReturn

SpecBounds == BoundsInit /\ [][BoundsNext]_vars

(***************************************************************************)
(* The exit finders, called on a flow map that holds any values.           *)
(***************************************************************************)
MaxValue == 1       \* largest value, besides MAX, of a flow map handed to the finders

\* The lists of up to MaxEdges exits, each into another tile, in any order.
ExitLists ==
    { es \in SeqsUpTo({ <<b, 1>> : b \in Cells }, MaxEdges) :
        \A i \in 1 .. Len(es) : \A j \in 1 .. Len(es) : es[i] = es[j] => i = j }

\* A flow map of NumCells tiles in a row; tile 0 has the exits of one of
\* ExitLists, the other tiles have none.
ExitInit ==
    /\ NoSearch
    /\ NoQuery
    /\ \E es \in ExitLists :
          exits = [c \in Cells |-> IF c = 0 THEN es ELSE <<>>]
    /\ hdist = [c \in Cells |-> 0]
    /\ num_threads = 1
    /\ \E field \in [Cells -> (0 .. MaxValue) \cup {MAX}] :
          /\ dm = [map |-> field, size_x |-> NumCells, size_y |-> 1, max_depth |-> 0]
          /\ before = field
    /\ d_pc = "idle"
    /\ d_starts = <<>>
    /\ NoLocals
    /\ budget = 0

FindLowestExit(position) ==
    /\ query' = [op |-> "find_lowest_exit", args |-> <<position>>,
                 result |-> find_lowest_exit(dm.map, position, exits)]
    /\ UNCHANGED <<dijkstra_vars, map_vars, astar_vars>>

FindHighestExit(position) ==
    /\ query' = [op |-> "find_highest_exit", args |-> <<position>>,
                 result |-> find_highest_exit(dm.map, position, exits)]
    /\ UNCHANGED <<dijkstra_vars, map_vars, astar_vars>>

ExitNext ==
    \/ \E position \in Tiles : FindLowestExit(position)
    \/ \E position \in Tiles : FindHighestExit(position)

SpecExits == ExitInit /\ [][ExitNext]_vars

(***************************************************************************)
(* What the map offers, for the properties below.                          *)
(***************************************************************************)
IsExit(a, b) == \E e \in Range(exits[a]) : e[1] = b

\* Cost of the cheapest exit from a to b.
ExitCost(a, b) == SetMin({ e[2] : e \in { x \in Range(exits[a]) : x[1] = b } })

\* Cheapest cost from every tile to tile e, by NumCells rounds of relaxation.
RECURSIVE Relax(_, _)
Relax(d, n) ==
    IF n = 0 THEN d
    ELSE Relax([c \in Cells |->
                   SetMin({d[c]} \cup { x[2] + d[x[1]] : x \in Range(exits[c]) })],
               n - 1)

MinCostTo(e) == Relax([c \in Cells |-> IF c = e THEN 0 ELSE Unreachable], NumCells)

RECURSIVE PathCost(_)
PathCost(steps) ==
    IF Len(steps) <= 1 THEN 0
    ELSE ExitCost(steps[1], steps[2]) + PathCost(Tail(steps))

Admissible == \A c \in Cells : hdist[c] <= MinCostTo(end)[c]

Consistent == \A c \in Cells : \A x \in Range(exits[c]) : hdist[c] <= x[2] + hdist[x[1]]

Returned == pc = "done"

\* The end was never generated as a successor.
EndNotReached == end \notin DOMAIN parents

(***************************************************************************)
(* C1: a successful search returns the requested destination and a path    *)
(* that starts at start, ends at end and moves only along exits of the map.*)
(***************************************************************************)
SuccessIsAPath ==
    (Returned /\ result.success) =>
        LET steps == result.steps
        IN /\ result.destination = end
           /\ Len(steps) >= 1
           /\ steps[1] = start
           /\ steps[Len(steps)] = end
           /\ \A i \in 1 .. (Len(steps) - 1) : IsExit(steps[i], steps[i + 1])

SuccessThroughAThirdTile ==
    Returned /\ result.success /\ Len(result.steps) = 3 /\ result.steps[2] # start

(***************************************************************************)
(* C2: with an admissible and consistent pathing distance, the path of a   *)
(* successful search costs what the cheapest path from start to end costs. *)
(***************************************************************************)
RouteIsOptimal ==
    (Returned /\ result.success /\ Admissible /\ Consistent) =>
        PathCost(result.steps) = MinCostTo(end)[start]

(***************************************************************************)
(* C3: every search comes to its end, the expansion loop and the walk back *)
(* over the parents included.                                              *)
(***************************************************************************)
SearchTerminates == <>(pc = "done")

(***************************************************************************)
(* C4: a search that ends without reaching the end returns no success, no  *)
(* steps and the requested end as its destination.                         *)
(***************************************************************************)
FailureCarriesDestination ==
    (Returned /\ EndNotReached) =>
        /\ result.success = FALSE
        /\ result.steps = <<>>
        /\ result.destination = end

(***************************************************************************)
(* C5: a search expands at most MAX_ASTAR_STEPS nodes, and one that has    *)
(* not generated the end when it stops there returns no success.           *)
(***************************************************************************)
StepCapHolds ==
    /\ step_counter <= MAX_ASTAR_STEPS
    /\ (Returned /\ step_counter = MAX_ASTAR_STEPS /\ EndNotReached) =>
            result.success = FALSE

StoppedAtTheCap ==
    /\ Returned
    /\ step_counter = MAX_ASTAR_STEPS
    /\ Len(open_list) # 0
    /\ EndNotReached
    /\ result.success = FALSE

(***************************************************************************)
(* C6: a search from a tile to itself succeeds with that tile as its only  *)
(* step, whatever the exits of the map.                                    *)
(***************************************************************************)
SearchToSelfSucceeds ==
    (Returned /\ start = end) =>
        (result.success /\ result.steps = <<start>>)

(***************************************************************************)
(* The flow map, for the properties below.                                 *)
(***************************************************************************)
\* Cheapest cost from the nearest of the tiles in sources to every tile.
RECURSIVE RelaxFrom(_, _)
RelaxFrom(d, n) ==
    IF n = 0 THEN d
    ELSE RelaxFrom([t \in Tiles |->
                       SetMin({d[t]} \cup UNION {
                           { d[a] + x[2] : x \in { y \in Range(exits[a]) : y[1] = t } } :
                           a \in Tiles })],
                   n - 1)

CostFrom(sources) ==
    RelaxFrom([t \in Tiles |-> IF t \in sources THEN 0 ELSE Unreachable],
              Cardinality(Tiles))

\* Every exit of the map has the same cost, and that cost is positive.
UniformCost ==
    \E c \in 1 .. MaxCost : \A t \in Tiles : \A x \in Range(exits[t]) : x[2] = c

\* The last call of build is over, and it began on a map of MAX alone: the
\* flow map is what DijkstraMap::new returns for the starts d_starts.
AfterNew == d_pc = "idle" /\ before = FreshField(dm.map)

\* The call of build that is over went through build_parallel.
AfterParallel == d_pc = "idle" /\ TakesParallel(d_starts, num_threads)

(***************************************************************************)
(* C7: on a map whose exits all have the same positive cost, a flow map    *)
(* built on a fresh field holds, at every tile whose cheapest cost from    *)
(* the nearest start is at most max_depth, exactly that cost.              *)
(***************************************************************************)
UniformMapIsExact ==
    (AfterNew /\ UniformCost) =>
        \A t \in Tiles :
            CostFrom(Range(d_starts))[t] <= dm.max_depth =>
                dm.map[t] = CostFrom(Range(d_starts))[t]

(***************************************************************************)
(* C8: a flow map built on a fresh field from one start holds 0 at the     *)
(* start and MAX at every tile whose cheapest cost from the start is more  *)
(* than max_depth.                                                         *)
(***************************************************************************)
OneStartWithinDepth ==
    (AfterNew /\ Len(d_starts) = 1) =>
        /\ dm.map[d_starts[1]] = 0
        /\ \A t \in Tiles :
               CostFrom({d_starts[1]})[t] > dm.max_depth => dm.map[t] = MAX

OneStartCutByDepth ==
    /\ AfterNew
    /\ Len(d_starts) = 1
    /\ \E t \in Tiles : dm.map[t] # MAX /\ dm.map[t] = dm.max_depth /\ dm.map[t] > 0
    /\ \E t \in Tiles : /\ CostFrom({d_starts[1]})[t] > dm.max_depth
                        /\ CostFrom({d_starts[1]})[t] < Unreachable

(***************************************************************************)
(* C9: no step of a call of build, sequential or parallel, raises the      *)
(* value of a tile, and when the call is over no tile holds more than it   *)
(* held when the call began.                                               *)
(***************************************************************************)
BuildNeverRaises ==
    /\ [][(d_pc # "idle" \/ d_pc' # "idle") =>
              \A t \in DOMAIN dm.map : dm.map'[t] <= dm.map[t]]_vars
    /\ [](d_pc = "idle" => \A t \in DOMAIN dm.map : dm.map[t] <= before[t])

\* A call of build on a field that was built before lowered a tile that
\* held a cost already.
RebuildLowered ==
    /\ d_pc = "idle"
    /\ \E t \in Tiles : before[t] < MAX /\ dm.map[t] < before[t]

(***************************************************************************)
(* C10: on a map whose exits all have the same positive cost, the field    *)
(* build_parallel leaves is the field the sequential loop of build leaves  *)
(* on the same field with the same starts.                                 *)
(***************************************************************************)
ParallelEqualsSequential ==
    (AfterParallel /\ UniformCost) =>
        dm.map = build_sequential(before, d_starts, 1, dm.max_depth, exits)

(***************************************************************************)
(* C11: for a given field, list of starts, map and number of threads, the  *)
(* field build_parallel leaves is the same whatever the order in which the *)
(* workers took their steps, and recombining the layers in any other order *)
(* leaves the same field.                                                  *)
(***************************************************************************)
\* The orders in which n layers can be taken.
Orders(n) == { p \in [1 .. n -> 1 .. n] : \A i, j \in 1 .. n : p[i] = p[j] => i = j }

\* Every layer is recombined into dm.map.
AllReduced == d_pc = "reduce" /\ d_reduced = Len(layers)

ParallelIsDeterministic ==
    AllReduced =>
        /\ dm.map = build_parallel(before, d_starts, dm.max_depth, num_threads, exits)
        /\ \A p \in Orders(Len(layers)) :
               RecombineAll(before, [k \in 1 .. Len(layers) |-> layers[p[k]]], 1) = dm.map

\* Two layers that differ were recombined, each lowering a tile below the other.
TwoLayersRecombined ==
    /\ AllReduced
    /\ Len(layers) >= 2
    /\ \E t \in Tiles : layers[1].map[t] < layers[2].map[t]
    /\ \E t \in Tiles : layers[2].map[t] < layers[1].map[t]

(***************************************************************************)
(* C12: while the workers of build_parallel run, a step changes one layer  *)
(* at most, by what its worker computes from the exits vector, which holds *)
(* the exits of every tile and is not changed; dm.map is not written, and  *)
(* when it is written every worker has finished.                           *)
(***************************************************************************)
ParallelPhaseIsIsolated ==
    [][/\ d_pc = "parallel" =>
              /\ dm' = dm
              /\ snapshot = [t \in Tiles |-> exits[t]]
              /\ snapshot' = snapshot
              /\ Len(layers') = Len(layers)
              /\ Cardinality({ k \in 1 .. Len(layers) : layers'[k] # layers[k] }) <= 1
              /\ \A k \in 1 .. Len(layers) :
                     layers'[k] # layers[k] => layers'[k] = WorkLayer(layers[k], snapshot)
       /\ (d_pc = "reduce" /\ dm' # dm) =>
              \A k \in 1 .. Len(layers) : LayerDone(layers[k])]_vars

\* One worker has finished its layer, another has not begun, and the field
\* is still what it was when build was called.
OneWorkerAhead ==
    /\ d_pc = "parallel"
    /\ \E k \in 1 .. Len(layers) : LayerDone(layers[k]) /\ layers[k].map # FreshField(dm.map)
    /\ \E k \in 1 .. Len(layers) : layers[k].next = 1
    /\ dm.map = before

(***************************************************************************)
(* C13: every call of build comes to its end, on maps with cycles and      *)
(* exits of cost zero and for every max_depth: whenever a call is under    *)
(* way, a state follows in which it has returned.                          *)
(***************************************************************************)
BuildTerminates == []<>(d_pc = "idle")

\* A call of build is over that flooded, at cost zero, a tile and the
\* neighbour that leads back to it.
ReturnedFromZeroCycle ==
    /\ d_pc = "idle"
    /\ d_starts # <<>>
    /\ \E a \in Tiles : \E b \in Tiles :
          /\ a # b
          /\ <<b, 0>> \in Range(exits[a])
          /\ <<a, 0>> \in Range(exits[b])
          /\ dm.map[a] = 0
          /\ dm.map[b] = 0

(***************************************************************************)
(* C14: find_lowest_exit returns None exactly when the tile has no exits,  *)
(* and otherwise an exit of the tile for which the flow map holds no more  *)
(* than for any other exit of the tile; the flow map is left as it was.    *)
(***************************************************************************)
LowestExitIsMinimal ==
    /\ [](query.op = "find_lowest_exit" =>
            LET position == query.args[1]
            IN /\ (query.result = None) <=> (exits[position] = <<>>)
               /\ query.result # None =>
                      /\ IsExit(position, query.result[1])
                      /\ \A e \in Range(exits[position]) :
                             dm.map[query.result[1]] <= dm.map[e[1]])
    /\ [][query' # query => dm' = dm]_vars

\* The exit returned is not the first the map lists: a later exit holds less.
LowestExitFoundBySorting ==
    /\ query.op = "find_lowest_exit"
    /\ query.result # None
    /\ query.result[1] # exits[query.args[1]][1][1]
    /\ dm.map[query.result[1]] < dm.map[exits[query.args[1]][1][1]]

(***************************************************************************)
(* C15: find_highest_exit returns an exit of the tile for which the flow   *)
(* map holds no less than for any other exit of the tile; on a tile with   *)
(* two exits or more whose values all differ it returns another exit than  *)
(* find_lowest_exit.                                                       *)
(***************************************************************************)
HighestExitIsMaximal ==
    query.op = "find_highest_exit" =>
        LET position == query.args[1]
            tiles == { e[1] : e \in Range(exits[position]) }
        IN /\ query.result # None =>
                  /\ IsExit(position, query.result[1])
                  /\ \A e \in Range(exits[position]) :
                         dm.map[query.result[1]] >= dm.map[e[1]]
           /\ (/\ Cardinality(tiles) >= 2
               /\ \A a \in tiles : \A b \in tiles : dm.map[a] = dm.map[b] => a = b) =>
                  query.result # find_lowest_exit(dm.map, position, exits)

(***************************************************************************)
(* C16: on an open map where every step costs 1, with the Manhattan        *)
(* distance as pathing distance, a search between two different tiles      *)
(* succeeds, and its steps are one more than the distance of the tiles.    *)
(***************************************************************************)
GridSearchIsShortest ==
    (Returned /\ start # end) =>
        /\ result.success
        /\ Len(result.steps) = GridDistance(start, end) + 1

(***************************************************************************)
(* C17: when build pops a start that lies outside the map, or is given an  *)
(* exit that lies outside the map by get_available_exits, that pass ends   *)
(* the build in an explicit error outcome, with no access outside the map. *)
(***************************************************************************)
MeetsOutOfRange ==
    /\ d_pc = "sequential"
    /\ d_open # <<>>
    /\ LET current_tile == d_open[Len(d_open)]
       IN \/ current_tile[1] \notin Tiles
          \/ /\ dm.map[current_tile[1]] > current_tile[2]
             /\ \E i \in 1 .. Len(exits[current_tile[1]]) :
                    exits[current_tile[1]][i][1] \notin Tiles

BuildChecksBounds == [][MeetsOutOfRange => d_pc' = "error"]_vars

(***************************************************************************)
(* C18: distance2d gives the same for two points in either order; it is    *)
(* |dx| + |dy| for Manhattan, the larger of |dx| and |dy| for Chebyshev    *)
(* and dx*dx + dy*dy for PythagorasSquared, dx and dy being the            *)
(* differences of the coordinates.                                         *)
(***************************************************************************)
Abs(n) == IF n < 0 THEN -n ELSE n

Distance2dIsTheMetric ==
    query.op = "distance2d" =>
        LET algorithm == query.args[1]
            a == query.args[2]
            b == query.args[3]
            dx == a.x - b.x
            dy == a.y - b.y
        IN /\ query.result = distance2d(algorithm, b, a)
           /\ algorithm = "Manhattan" => query.result = Abs(dx) + Abs(dy)
           /\ algorithm = "Chebyshev" =>
                  query.result = IF Abs(dx) >= Abs(dy) THEN Abs(dx) ELSE Abs(dy)
           /\ algorithm = "PythagorasSquared" => query.result = dx * dx + dy * dy

\* A Chebyshev distance over a diagonal part and a straight part, from a
\* point left of and above the other.
ChebyshevOverADiagonal ==
    /\ query.op = "distance2d"
    /\ query.args[1] = "Chebyshev"
    /\ query.args[2].x < 0
    /\ query.args[3].x - query.args[2].x = 2
    /\ query.args[2].y - query.args[3].y = 1
    /\ query.result = 2

(***************************************************************************)
(* C19: the start is put on the open list with g = 0, and every node that  *)
(* an expansion of q puts on the open list has, for an exit of q into its  *)
(* tile, g = q.g + the cost of the exit, h the pathing distance of its     *)
(* tile to the end, and f = g + h.                                         *)
(***************************************************************************)
NodeCostsAreEdgeSums ==
    /\ [](pc = "search" /\ step_counter = 0 => open_list[1].g = 0)
    /\ [][pc = "search" /\ LoopCondition =>
            LET q == open_list[1]
            IN \A n \in Range(open_list') \ Range(open_list) :
                   /\ \E i \in 1 .. Len(exits[q.idx]) :
                          /\ exits[q.idx][i][1] = n.idx
                          /\ n.g = q.g + exits[q.idx][i][2]
                   /\ n.h = distance_to_end(n.idx)
                   /\ n.f = n.g + n.h]_vars

(***************************************************************************)
(* C20: a worker of build_parallel starts the traversal of each start of   *)
(* its layer with a closed list that holds no tile, and once the workers   *)
(* are done each layer holds the field that the loop of build makes of a   *)
(* field of MAX alone and the starts of the layer, in their order.         *)
(***************************************************************************)
LayersAreSequentialBuilds ==
    /\ d_pc = "parallel" =>
           \A k \in 1 .. Len(layers) :
               ~LayerDone(layers[k]) => layers[k].closed_list = NoneClosed(dm.map)
    /\ d_pc = "reduce" =>
           \A k \in 1 .. Len(layers) :
               layers[k].map = build_sequential(FreshField(dm.map), layers[k].starts,
                                                1, dm.max_depth, exits)

(***************************************************************************)
(* C21: in the traversal of one start by build, every tile on the open     *)
(* list, the start included, is marked in the closed list, and a pass of   *)
(* the while loop pushes no tile that was pushed before in the traversal:  *)
(* not the start, not a tile the closed list marks, and no tile twice.     *)
(***************************************************************************)
\* The tiles that the pass from d_open to d_open' pushed.
PushedBy(old, new) == [i \in 1 .. (Len(new) - (Len(old) - 1)) |-> new[Len(old) - 1 + i][1]]

NoTilePushedTwice ==
    /\ [](d_pc = "sequential" =>
            \A i \in 1 .. Len(d_open) : d_closed[d_open[i][1]])
    /\ [][(d_pc = "sequential" /\ d_open # <<>> /\ d_open' # d_open) =>
            LET pushed == PushedBy(d_open, d_open')
            IN /\ \A i \in 1 .. Len(pushed) :
                      /\ pushed[i] # d_starts[d_next - 1]
                      /\ ~d_closed[pushed[i]]
               /\ \A i \in 1 .. Len(pushed) : \A j \in 1 .. Len(pushed) :
                      pushed[i] = pushed[j] => i = j]_vars

(***************************************************************************)
(* C22: a flow map built on a fresh field holds a value other than MAX at  *)
(* every tile whose cheapest cost from some start is at most max_depth.    *)
(***************************************************************************)
ReachableTilesAreMarked ==
    AfterNew =>
        \A t \in Tiles :
            CostFrom(Range(d_starts))[t] <= dm.max_depth => dm.map[t] # MAX

====
